---- MODULE Spec2Model ----
(***************************************************************************)
(* Model of the multi-sensor ranging coordinator 'RangingFlock'            *)
(* (tof/vl53l5cx/src/ranging_flock.rs).                                    *)
(*                                                                         *)
(* 'get_data' is an async fn: it is modelled as a small program counter    *)
(* machine (one step per iteration of the scan loop, one for the pop or    *)
(* sleep that follows it), so that sensor readiness and edges of the       *)
(* shared INT line can interleave with a call in progress.  The sensors    *)
(* and the INT line are the environment.  'start' and 'stop' are           *)
(* synchronous and are one step each.                                      *)
(*                                                                         *)
(* The results decoder (tof/vl53l5cx_uld/src/results_data.rs) is a pure    *)
(* function; it is applied to a family of raw buffers in DecodeSpec.       *)
(*                                                                         *)
(* Specifications: Spec and FairSpec (a flock whose boards complete at     *)
(* most MaxMeasure measurements), EndlessSpec (boards that measure for     *)
(* ever), DecodeSpec (the decoder).                                        *)
(***************************************************************************)
EXTENDS Integers, Sequences, FiniteSets, TLC

\* ---------------------------------------------------------------- bounds
MaxN       == 3      \* largest flock size N tried
MaxMeasure == 4      \* measurements the sensors complete in one behaviour
MaxErr     == 1      \* transport failures injected in one behaviour
MaxSeq     == 2      \* fetches of a board told apart when boards never end

VARIABLES
    N,              \* const generic N: number of boards in the flock
    ready,          \* ready[i]: board i has an unread measurement
    intLow,         \* level of the shared INT line (TRUE = low)
    measured,       \* measurements completed so far (bounds the environment)
    errs,           \* transport failures so far (bounds the environment)
    pc,             \* position of the get_data future
    pos,            \* position of the 'for' loop in the scan order
    pending,        \* self.pending
    result,         \* what the last get_data call returned
    failed,         \* an is_ready()/get_data() of this call failed (ghost)
    fetches,        \* fetches[i]: results fetched from board i so far (ghost)
    returned,       \* the results returned so far, as <<board, seq>> (ghost)
    redelivered,    \* some result was returned a second time (ghost)
    pendingAtCall,  \* self.pending when the current call began (ghost)
    scanPushed,     \* entries pushed by the current scan (ghost)
    checks,         \* boards whose is_ready() the current scan called (ghost)
    lastScan,       \* the latest finished scan that pushed something (ghost)
    sinceFull,      \* results returned since a scan found all N ready (ghost)
    endless,        \* the boards measure without end; no history is kept
    handles,        \* handles[i]: who owns board i's handle, and its state
    pinINT          \* who owns the input of the shared INT line

\* The results decoder (tof/vl53l5cx_uld/src/results_data.rs), a pure
\* function of the raw buffers, has its own specification (DecodeSpec).
VARIABLES
    DIM,            \* const generic DIM: 4 or 8
    TARGETS,        \* const TARGETS: targets per zone, 1..4
    raw_results,    \* the VL53L5CX_ResultsData given to the decoder
    dpc,            \* position of the decoder
    data,           \* the ResultsData that feed() filled
    tempC,          \* the TempC that feed() returned
    offset,         \* the 'offset' a helper was called with
    out,            \* the matrix a helper filled
    reads           \* the indices of the raw buffers that were read (ghost)

flockVars == << N, ready, intLow, measured, errs, pc, pos, pending, result,
                failed, fetches, returned, redelivered, pendingAtCall,
                scanPushed, checks, lastScan, sinceFull, endless, handles,
                pinINT >>
decVars == << DIM, TARGETS, raw_results, dpc, data, tempC, offset, out,
              reads >>
vars == << flockVars, decVars >>

envVars   == << ready, intLow, measured >>
ghostScan == << lastScan, sinceFull >>
ghostRet  == << returned, redelivered >>
owned     == << handles, pinINT >>
config    == << N, endless >>

Boards == 0 .. (MaxN - 1)

NoEntry == [idx |-> -1, seq |-> 0, stamp |-> "ok"]
NoResult == [kind |-> "none", entry |-> NoEntry]

\* ------------------------------------------------------- pure operators

\* self.ulds.iter_mut().enumerate().rev(): board indices N-1, N-2, .. 0
ScanTwice(n) == [k \in 1 .. 2 * n |-> (n - 1) - ((k - 1) % n)]
ScanOrder(n) == [k \in 1 .. n |-> n - k]

\* assert!(self.ulds.len() > 1)
AssertOk(n) == n > 1

\* ArrayVec<_,N>::push: panics when the vector already holds N elements
PushFits(q, n) == Len(q) < n

\* ArrayVec::pop: the last element, and what is left
PopFront(q) == [tuple |-> Head(q), rest |-> Tail(q)]
PopDrain(q) == [tuple |-> q[Len(q)], rest |-> <<>>]
Pop(q) == [tuple |-> q[Len(q)], rest |-> SubSeq(q, 1, Len(q) - 1)]

\* let time_stamp = now();  read once is_ready() has returned (at tConf);
\* tTop is the clock when the loop iteration began
StampAtTop(tTop, tConf) == tTop
TimeStampOf(tTop, tConf) == tConf

\* the '?' on is_ready() / get_data(): where the call goes on an Err
SkipOnErr(more) == IF more THEN "scan" ELSE "pop"
OnErr(more) == "idle"

\* if let Some(tuple) = self.pending.pop() { return } ... else sleep
SleepAlways(q) == "wait"
AfterScan(q) == IF q # <<>> THEN "idle" ELSE "wait"

Idxs(q) == [k \in 1 .. Len(q) |-> q[k].idx]

\* The history of a behaviour in which the boards measure without end is
\* not kept, and the fetches of a board are numbered up to MaxSeq only
\* (the last number then stands for every later fetch).
Hist(new, old) == IF endless THEN old ELSE new
NextSeq(k) == IF endless /\ k >= MaxSeq THEN MaxSeq ELSE k + 1
Count(q, i) == Cardinality({k \in 1 .. Len(q) : q[k].idx = i})
\* whether the clock (esp_hal::time::now) advances during a bus operation
Elapsed == {0, 1}

\* where a time stamp lies relative to the moment is_ready() returned true
\* and the moment get_data() had fetched the raw buffer
Stamped(ts, tConf, tFet) ==
    IF ts < tConf THEN "early" ELSE IF ts > tFet THEN "late" ELSE "ok"

\* ------------------------------------------------------ start and stop

\* A handle: its owner ("caller", "flock" or "nobody" once it was dropped),
\* the state of its board, and how often stop() succeeded on it.
VL == [own |-> "caller", st |-> "init", stops |-> 0]
NoHandle == [own |-> "nobody", st |-> "absent", stops |-> 0]

\* turn_to_something(array, f) of crate::z_array_try_map: f is applied to
\* the elements in turn until one gives Err (failAt; n when none does).
TurnToSomething(n, failAt) ==
    [ok   |-> failAt = n,
     done |-> {i \in 0 .. (n - 1) : i < failAt},
     err  |-> {i \in 0 .. (n - 1) : i = failAt},
     left |-> {i \in 0 .. (n - 1) : i > failAt}]

\* the board whose start_ranging() or stop() gave Err
Failed(h) == [h EXCEPT !.st = "failed"]

\* |x| x.into_uld().start_ranging(cfg)
StartRanging(h) == [h EXCEPT !.st = "ranging"]

\* |x| { let uld = x.stop()?; Ok(VL::recreate(uld)) }
StopRanging(h) == [h EXCEPT !.st = "stopped", !.stops = @ + 1]

\* A value that is neither stored nor returned is dropped at the '?'.
\* Whether dropping a State_Ranging stops its board is up to its Drop.
DropStops == BOOLEAN
Dropped(h, stops) ==
    [h EXCEPT !.own = "nobody",
              !.st = IF @ = "ranging" /\ stops THEN "stopped" ELSE @]

\* Ok(Self{ ulds, pinINT, pending: ArrayVec::new() })
StartOk == [ulds |-> "flock", pinINT |-> "flock", pending |-> <<>>]

\* Ok( (vls, self.pinINT) )
StopLosesLine == [vls |-> "caller", pinINT |-> "nobody"]
StopOk == [vls |-> "caller", pinINT |-> "caller"]

\* ------------------------------------------------------------------ Init
NoData == [none |-> TRUE]
NoTemp == -274
NoReads == [meta |-> {}, target |-> {}]

\* no decoding is looked at
DecoderOff ==
    /\ DIM = 4
    /\ TARGETS = 1
    /\ raw_results = <<>>
    /\ dpc = "off"
    /\ data = NoData
    /\ tempC = NoTemp
    /\ offset = 0
    /\ out = <<>>
    /\ reads = NoReads

\* Before RangingFlock::start: the caller holds N initialised boards and
\* the input of the INT line.
FlockInit ==
    /\ N \in 1 .. MaxN
    /\ endless \in BOOLEAN
    /\ ready = [i \in Boards |-> FALSE]
    /\ intLow = FALSE
    /\ measured = 0
    /\ errs = 0
    /\ pc = "new"
    /\ pos = 0
    /\ pending = <<>>
    /\ result = NoResult
    /\ failed = FALSE
    /\ fetches = [i \in Boards |-> 0]
    /\ returned = {}
    /\ redelivered = FALSE
    /\ pendingAtCall = <<>>
    /\ scanPushed = <<>>
    /\ checks = <<>>
    /\ lastScan = [S |-> <<>>, got |-> <<>>]
    /\ sinceFull = -1
    /\ handles = [i \in Boards |-> IF i < N THEN VL ELSE NoHandle]
    /\ pinINT = "caller"

Init == FlockInit /\ ~endless /\ DecoderOff


\* ------------------------------------------------------------ environment

\* A falling or rising edge wakes a call that sleeps in wait_for_any_edge();
\* an edge that comes while the call is not (yet) waiting is not seen.
Panicked == pc \in {"panicAssert", "panicPush"}

PcAfterEdge(edge) == IF edge /\ pc = "wait" THEN "scan" ELSE pc

\* Board i completes a measurement: its data is ready and it pulls INT low.
Measure(i) ==
    /\ ~Panicked
    /\ i < N
    /\ handles[i] = [VL EXCEPT !.own = "flock", !.st = "ranging"]
    /\ ~ready[i]
    /\ endless \/ measured < MaxMeasure
    /\ ready' = [ready EXCEPT ![i] = TRUE]
    /\ measured' = Hist(measured + 1, measured)
    /\ intLow' = TRUE
    /\ pc' = PcAfterEdge(~intLow)
    /\ pos' = IF pc' # pc THEN 1 ELSE pos
    /\ scanPushed' = IF pc' # pc THEN <<>> ELSE scanPushed
    /\ checks' = IF pc' # pc THEN <<>> ELSE checks
    /\ sinceFull' = IF pc' # pc THEN -1 ELSE sinceFull
    /\ UNCHANGED << config, owned, decVars,
                    errs, pending, result, failed, fetches, ghostRet,
                    pendingAtCall, lastScan >>

\* The INT-low pulse ends (about 100us after the last new result).
IntRise ==
    /\ ~Panicked
    /\ intLow
    /\ intLow' = FALSE
    /\ pc' = PcAfterEdge(TRUE)
    /\ pos' = IF pc' # pc THEN 1 ELSE pos
    /\ scanPushed' = IF pc' # pc THEN <<>> ELSE scanPushed
    /\ checks' = IF pc' # pc THEN <<>> ELSE checks
    /\ sinceFull' = IF pc' # pc THEN -1 ELSE sinceFull
    /\ UNCHANGED << config, owned, decVars,
                    ready, measured, errs, pending, result, failed, fetches,
                    ghostRet, pendingAtCall, lastScan >>

\* ------------------------------------------------------------------ start

\* RangingFlock::start(vls, cfg, pinINT): all arguments are moved in; on
\* an Err the '?' returns it and everything moved in is dropped.
Start ==
    /\ pc = "new"
    /\ \E failAt \in 0 .. N, d \in DropStops :
          LET t == TurnToSomething(N, failAt)
          IN  /\ t.ok => d
              /\ ~t.ok => errs < MaxErr
              /\ pc' = IF t.ok THEN "idle" ELSE "startErr"
              /\ errs' = IF t.ok THEN errs ELSE errs + 1
              /\ handles' = [i \in Boards |->
                    IF t.ok /\ i < N
                      THEN [StartRanging(handles[i])
                              EXCEPT !.own = StartOk.ulds]
                    ELSE IF i \in t.done
                      THEN Dropped(StartRanging(handles[i]), d)
                    ELSE IF i \in t.err
                      THEN Dropped(Failed(handles[i]), d)
                    ELSE IF i \in t.left
                      THEN Dropped(handles[i], d)
                    ELSE handles[i]]
              /\ pinINT' = IF t.ok THEN StartOk.pinINT ELSE "nobody"
              /\ pending' = IF t.ok THEN StartOk.pending ELSE pending
    /\ UNCHANGED << config, decVars, envVars, pos, result, failed, fetches,
                    ghostRet, pendingAtCall, scanPushed, checks, ghostScan >>

\* --------------------------------------------------------------- get_data

\* The caller polls a new get_data future: the assert, then the loop top.
Call ==
    /\ pc = "idle"
    /\ AssertOk(N)
    /\ pc' = "scan"
    /\ pos' = 1
    /\ pendingAtCall' = pending
    /\ result' = NoResult
    /\ failed' = FALSE
    /\ scanPushed' = <<>>
    /\ checks' = <<>>
    /\ UNCHANGED << config, owned, decVars,
                    envVars, errs, pending,
                    fetches, ghostRet, ghostScan >>

\* assert!(self.ulds.len() > 1) fails
CallAssertFails ==
    /\ pc = "idle"
    /\ ~AssertOk(N)
    /\ pc' = "panicAssert"
    /\ pendingAtCall' = pending
    /\ result' = NoResult
    /\ failed' = FALSE
    /\ UNCHANGED << config, owned, decVars,
                    envVars, errs, pos, pending, fetches, ghostRet,
                    scanPushed, checks, ghostScan >>

Board == ScanOrder(N)[pos]
More  == pos < Len(ScanOrder(N))

Key(e) == << e.idx, e.seq >>

\* the boards returned since the scan, as far as the scan's own results go
Got(ls, i) == IF Len(ls.got) < Len(ls.S) THEN [ls EXCEPT !.got = Append(@, i)]
                                         ELSE ls

\* what a scan that ends here leaves for the history
ScanEnded(pushed) ==
    IF pushed # <<>> THEN [S |-> Idxs(pushed), got |-> <<>>]
                     ELSE lastScan

\* an Err of is_ready() or get_data() leaves through '?'
ReturnErr ==
    /\ failed' = TRUE
    /\ errs' = errs + 1
    /\ pc' = OnErr(More)
    /\ pos' = IF pc' = "scan" THEN pos + 1 ELSE pos
    /\ result' = IF pc' = "idle" THEN [kind |-> "err", entry |-> NoEntry]
                                ELSE result
    /\ lastScan' = IF pc' = "idle" THEN Hist(ScanEnded(scanPushed), lastScan)
                                  ELSE lastScan

\* the loop goes on to the next board, or the scan is over
NextBoard ==
    /\ pc' = IF More THEN "scan" ELSE "pop"
    /\ pos' = IF More THEN pos + 1 ELSE pos

\* One iteration of 'for (i,uld) in ..rev()':
\*   if uld.is_ready()? { let time_stamp = now();
\*                        let (rd,tempC) = uld.get_data()?;
\*                        self.pending.push((i,rd,tempC,time_stamp)); }
\* Time is counted from the top of the iteration: is_ready() returns at
\* tConf = d1, get_data() at tFet = d1 + d2.
ScanStep ==
    /\ pc = "scan"
    /\ checks' = Append(checks, Board)
    /\ \/ /\ errs < MaxErr                      \* is_ready() is Err
          /\ ReturnErr
          /\ UNCHANGED << ready, fetches, pending, scanPushed >>
       \/ /\ ~ready[Board]                      \* Ok(false)
          /\ NextBoard
          /\ UNCHANGED << ready, fetches, pending, scanPushed, errs, failed,
                          result, lastScan >>
       \/ /\ ready[Board]                       \* Ok(true)
          /\ \/ /\ errs < MaxErr                \* get_data() is Err
                /\ ReturnErr
                /\ UNCHANGED << ready, fetches, pending, scanPushed >>
             \/ \E d1 \in Elapsed, d2 \in Elapsed :
                LET tConf == d1
                    tFet == d1 + d2
                    time_stamp == TimeStampOf(0, tConf)
                    e == [idx |-> Board, seq |-> NextSeq(fetches[Board]),
                          stamp |-> Stamped(time_stamp, tConf, tFet)]
                IN  /\ ready' = [ready EXCEPT ![Board] = FALSE]
                    /\ fetches' = [fetches EXCEPT ![Board] = NextSeq(@)]
                    /\ IF PushFits(pending, N)
                       THEN /\ pending' = Append(pending, e)
                            /\ scanPushed' = Append(scanPushed, e)
                            /\ NextBoard
                       ELSE /\ pc' = "panicPush"
                            /\ UNCHANGED << pending, scanPushed, pos >>
                    /\ UNCHANGED << errs, failed, result, lastScan >>
    /\ UNCHANGED << config, owned, decVars,
                    intLow, measured, ghostRet, pendingAtCall, sinceFull >>

\* if let Some(tuple) = self.pending.pop() { return Ok(tuple); }
\* otherwise: assert!(self.pending.is_empty()); wait_for_any_edge().await
PopOrSleep ==
    /\ pc = "pop"
    /\ pc' = AfterScan(pending)
    /\ IF pc' = "idle"
       THEN /\ pending' = Pop(pending).rest
            /\ result' = [kind |-> "ok", entry |-> Pop(pending).tuple]
            /\ returned' =
                  Hist(returned \cup {Key(Pop(pending).tuple)}, returned)
            /\ redelivered' =
                  Hist(redelivered \/ Key(Pop(pending).tuple) \in returned,
                       redelivered)
            /\ lastScan' =
                  Hist(Got(ScanEnded(scanPushed), Pop(pending).tuple.idx),
                       lastScan)
            /\ sinceFull' =
                  Hist(IF Len(scanPushed) = N THEN 1
                       ELSE IF sinceFull >= 0 THEN sinceFull + 1
                       ELSE sinceFull, sinceFull)
       ELSE UNCHANGED << pending, result, ghostRet, lastScan, sinceFull >>
    /\ UNCHANGED << config, owned, decVars,
                    envVars, errs, pos, failed, fetches, pendingAtCall,
                    scanPushed, checks >>

\* The caller drops the future while it sleeps in wait_for_any_edge().
Cancel ==
    /\ pc = "wait"
    /\ pc' = "idle"
    /\ sinceFull' = -1
    /\ UNCHANGED << config, owned, decVars,
                    envVars, errs, pos, pending, result, failed, fetches,
                    ghostRet, pendingAtCall, scanPushed, checks, lastScan >>

\* ------------------------------------------------------------------- stop

\* RangingFlock::stop(self): possible while no get_data future borrows the
\* flock.  self is consumed: what is not handed back is dropped, the queue
\* included; the history of the session ends with it.
Stop ==
    /\ pc = "idle"
    /\ \E failAt \in 0 .. N, d \in DropStops :
          LET t == TurnToSomething(N, failAt)
          IN  /\ t.ok => d
              /\ ~t.ok => errs < MaxErr
              /\ pc' = IF t.ok THEN "stopped" ELSE "stopErr"
              /\ errs' = IF t.ok THEN errs ELSE errs + 1
              /\ handles' = [i \in Boards |->
                    IF t.ok /\ i < N
                      THEN [StopRanging(handles[i]) EXCEPT !.own = StopOk.vls]
                    ELSE IF i \in t.done
                      THEN Dropped(StopRanging(handles[i]), d)
                    ELSE IF i \in t.err
                      THEN Dropped(Failed(handles[i]), d)
                    ELSE IF i \in t.left
                      THEN Dropped(handles[i], d)
                    ELSE handles[i]]
              /\ pinINT' = IF t.ok THEN StopOk.pinINT ELSE "nobody"
    /\ pending' = <<>>
    /\ pos' = 0
    /\ result' = NoResult
    /\ failed' = FALSE
    /\ fetches' = [i \in Boards |-> 0]
    /\ returned' = {}
    /\ redelivered' = FALSE
    /\ pendingAtCall' = <<>>
    /\ scanPushed' = <<>>
    /\ checks' = <<>>
    /\ lastScan' = [S |-> <<>>, got |-> <<>>]
    /\ sinceFull' = -1
    /\ UNCHANGED << config, decVars, envVars >>

Next ==
    \/ Start
    \/ Stop
    \/ \E i \in Boards : Measure(i)
    \/ IntRise
    \/ Call
    \/ CallAssertFails
    \/ ScanStep
    \/ PopOrSleep
    \/ Cancel

Spec == Init /\ [][Next]_vars

TypeOK ==
    /\ N \in 1 .. MaxN
    /\ pc \in {"new", "startErr", "idle", "scan", "pop", "wait",
              "panicAssert", "panicPush", "stopped", "stopErr"}
    /\ pinINT \in {"caller", "flock", "nobody"}
    /\ Len(pending) <= N


\* --------------------------------------------------------------- helpers
InFlock(i) == i \in 0 .. (N - 1)
Range(q) == {q[k] : k \in 1 .. Len(q)}
Min(S) == CHOOSE x \in S : \A y \in S : x <= y

RECURSIVE Ascending(_)
Ascending(S) == IF S = {} THEN <<>> ELSE << Min(S) >> \o Ascending(S \ {Min(S)})

IsPrefix(p, q) == Len(p) <= Len(q) /\ p = SubSeq(q, 1, Len(p))
IsSuffix(p, q) ==
    Len(p) <= Len(q) /\ p = SubSeq(q, Len(q) - Len(p) + 1, Len(q))

\* --------------------------------------------------------------- decoder
\* (tof/vl53l5cx_uld/src/results_data.rs)

Dims == {4, 8}              \* ResultsData<const DIM: usize>   // DIM: 4,8
TargetCounts == 1 .. 4      \* features targets_per_zone_{2,3,4}, else 1

\* The C buffers are laid out for 8x8 zones whatever DIM is in use ("take
\* only the beginning of the C buffer").  Buffers are indexed from 0.
RawZones == 64
BufLen(raw) == Cardinality(DOMAIN raw)

\* &raw[..n]: the slice that is indexed afterwards; panics when n is
\* beyond the buffer
WholeBuffer(raw, n) == [len |-> BufLen(raw), ok |-> TRUE]
Prefix(raw, n) == [len |-> n, ok |-> n <= BufLen(raw)]

\* raw[(r * DIM + c) * TARGETS + offset]
PlanarIndex(r, c, dim, targets, o) == o * dim * dim + r * dim + c
FlatIndex(r, c, dim, targets, o) == (r * dim + c) * targets + o

\* What is done to one element: ok is FALSE when it panics.
Identity(x) == [ok |-> TRUE, v |-> x]

\* 'v as u16' on an i16
AsU16(v) == v % 65536

\* |v: i16| -> u16 { assert!(v >= 0, ..); v as u16 }
CastOnly(v) == [ok |-> TRUE, v |-> AsU16(v)]
DistanceOf(v) == [ok |-> v >= 0, v |-> AsU16(v)]

\* TargetStatus::from_uld: the arms of the match, in their order
RangeArmFirst(v) ==
    IF v \in 0 .. 13 THEN [ok |-> TRUE, v |-> [tag |-> "Other", raw |-> v]]
    ELSE IF v = 255 THEN [ok |-> TRUE, v |-> [tag |-> "Invalid"]]
    ELSE [ok |-> FALSE, v |-> [tag |-> "panic"]]
from_uld(v) ==
    IF v = 5 THEN [ok |-> TRUE, v |-> [tag |-> "Valid", raw |-> v]]
    ELSE IF v \in {6, 9}
      THEN [ok |-> TRUE, v |-> [tag |-> "HalfValid", raw |-> v]]
    ELSE IF v = 255 THEN [ok |-> TRUE, v |-> [tag |-> "Invalid"]]
    ELSE IF v \in 0 .. 13
      THEN [ok |-> TRUE, v |-> [tag |-> "Other", raw |-> v]]
    ELSE [ok |-> FALSE, v |-> [tag |-> "panic"]]

\* The two loops 'for r in 0..DIM { for c in 0..DIM { out[r][c] = .. } }'
\* over a slice, reading raw[at[r,c]] and applying f (both given as
\* functions): they run until an index is out of the slice or f panics.
Fill(raw, slice, dim, at, f) ==
    LET zones == (0 .. (dim - 1)) \X (0 .. (dim - 1))
        nth(z) == z[1] * dim + z[2]
        bad == {nth(z) : z \in {y \in zones :
                   \/ at[y] >= slice.len
                   \/ ~f[raw[at[y]]].ok}}
        last == IF bad = {} THEN dim * dim ELSE Min(bad)
        panic == ~slice.ok \/ bad # {}
    IN  [panic |-> panic,
         out   |-> IF panic THEN <<>>
                   ELSE [r \in 0 .. (dim - 1) |-> [c \in 0 .. (dim - 1) |->
                            f[raw[at[<< r, c >>]]].v]],
         reads |-> IF ~slice.ok THEN {}
                   ELSE {at[z] : z \in {y \in zones :
                            /\ nth(y) <= last
                            /\ at[y] < slice.len}}]

into_matrix_map_o(raw, o, dim, targets, f) ==
    LET at == [z \in (0 .. (dim - 1)) \X (0 .. (dim - 1)) |->
                  FlatIndex(z[1], z[2], dim, targets, o)]
    IN  Fill(raw, Prefix(raw, dim * dim * targets), dim, at, f)

into_matrix_o(raw, o, dim, targets) ==
    into_matrix_map_o(raw, o, dim, targets, [x \in Int |-> Identity(x)])

into_matrix(raw, dim) ==
    LET at == [z \in (0 .. (dim - 1)) \X (0 .. (dim - 1)) |->
                  z[1] * dim + z[2]]
    IN  Fill(raw, Prefix(raw, dim * dim), dim, at,
             [x \in Int |-> Identity(x)])

\* feed(): the zone metadata, then 'for i in 0..TARGETS' the five
\* per-target fields; the first panic ends it.
feed(rr, dim, targets) ==
    LET meta == << into_matrix(rr.ambient_per_spad, dim),
                   into_matrix(rr.nb_spads_enabled, dim),
                   into_matrix(rr.nb_target_detected, dim) >>
        call(i, j) ==
            CASE j = 1 -> into_matrix_map_o(rr.target_status, i, dim, targets,
                                            [v \in 0 .. 255 |-> from_uld(v)])
              [] j = 2 -> into_matrix_map_o(rr.distance_mm, i, dim, targets,
                                            [v \in Int |-> DistanceOf(v)])
              [] j = 3 -> into_matrix_o(rr.range_sigma_mm, i, dim, targets)
              [] j = 4 -> into_matrix_o(rr.reflectance, i, dim, targets)
              [] j = 5 -> into_matrix_o(rr.signal_per_spad, i, dim, targets)
        done == {<< k, call((k - 1) \div 5, ((k - 1) % 5) + 1) >> :
                    k \in 1 .. 5 * targets}
        calls == [k \in 1 .. 5 * targets |->
                     (CHOOSE d \in done : d[1] = k)[2]]
        field(j) == [i \in 0 .. (targets - 1) |-> calls[5 * i + j].out]
        metaBad == {k \in 1 .. 3 : meta[k].panic}
        bad == {k \in 1 .. 5 * targets : calls[k].panic}
        last == IF bad = {} THEN 5 * targets ELSE Min(bad)
        panic == metaBad # {} \/ bad # {}
    IN  [panic |-> panic,
         data  |-> IF panic THEN NoData
                   ELSE [ambient_per_spad |-> meta[1].out,
                         spads_enabled    |-> meta[2].out,
                         targets_detected |-> meta[3].out,
                         target_status    |-> field(1),
                         distance_mm      |-> field(2),
                         range_sigma_mm   |-> field(3),
                         reflectance      |-> field(4),
                         signal_per_spad  |-> field(5)],
         tempC |-> IF panic THEN NoTemp ELSE rr.silicon_temp_degc,
         reads |-> [meta   |-> UNION {meta[k].reads : k \in 1 .. 3},
                    target |-> IF metaBad # {} THEN {}
                               ELSE UNION {calls[k].reads : k \in 1 .. last}]]

\* The raw buffers tried: every element tells its own index and field,
\* but for the target slot p.at, which holds the status byte and the
\* distance under test, and the slot after it, which holds no target.
\* Every status byte is tried on the 4x4 layout.
ProbeAt == {0, 12, 63}
DistanceValues == {-32768, -1, 0, 1, 1234, 32767}
StatusBytes == 0 .. 255
Probes(dim) ==
    {[at |-> 12, status |-> b, distance |-> 1234] :
        b \in IF dim = 4 THEN StatusBytes ELSE {13, 14, 254, 255}}
    \cup {[at |-> a, status |-> b, distance |-> v] :
             a \in ProbeAt, b \in {5, 200}, v \in DistanceValues}

VL53L5CX_ResultsData(targets, p) ==
    LET zone == 0 .. (RawZones - 1)
        slot == 0 .. (RawZones * targets - 1)
    IN  [silicon_temp_degc  |-> 25,
         ambient_per_spad   |-> [k \in zone |-> 200000 + k],
         nb_spads_enabled   |-> [k \in zone |-> 300000 + k],
         nb_target_detected |-> [k \in zone |-> k],
         target_status      |-> [k \in slot |->
                                  IF k = p.at THEN p.status
                                  ELSE IF k % 15 = 14 THEN 255 ELSE k % 15],
         distance_mm        |-> [k \in slot |->
                                  IF k = p.at THEN p.distance
                                  ELSE IF k = p.at + 1 THEN 0 ELSE 1000 + k],
         range_sigma_mm     |-> [k \in slot |-> 2000 + k],
         reflectance        |-> [k \in slot |-> k],
         signal_per_spad    |-> [k \in slot |-> 100000 + k]]

DecodeInit ==
    /\ FlockInit
    /\ N = 1
    /\ ~endless
    /\ DIM \in Dims
    /\ TARGETS \in TargetCounts
    /\ \E p \in Probes(DIM) : raw_results = VL53L5CX_ResultsData(TARGETS, p)
    /\ dpc = "raw"
    /\ data = NoData
    /\ tempC = NoTemp
    /\ offset = 0
    /\ out = <<>>
    /\ reads = NoReads

\* ResultsData::from(raw_results): empty(), then feed()
Feed ==
    /\ dpc = "raw"
    /\ LET f == feed(raw_results, DIM, TARGETS)
       IN  /\ dpc' = IF f.panic THEN "panic" ELSE "done"
           /\ data' = f.data
           /\ tempC' = f.tempC
           /\ reads' = f.reads
    /\ UNCHANGED << flockVars, DIM, TARGETS, raw_results, offset, out >>

\* The helper on its own, also with an 'offset' that feed() never uses.
IntoMatrixO ==
    /\ dpc = "raw"
    /\ \E o \in 0 .. TARGETS :
          LET m == into_matrix_o(raw_results.range_sigma_mm, o, DIM, TARGETS)
          IN  /\ offset' = o
              /\ dpc' = IF m.panic THEN "helperPanic" ELSE "helperDone"
              /\ out' = m.out
              /\ reads' = [meta |-> {}, target |-> m.reads]
    /\ UNCHANGED << flockVars, DIM, TARGETS, raw_results, data, tempC >>

DecodeNext == Feed \/ IntoMatrixO

DecodeSpec == DecodeInit /\ [][DecodeNext]_vars

\* The boards measure for ever: the behaviours in which an entry can be
\* overtaken again and again.  The caller keeps calling get_data.
EndlessInit == FlockInit /\ endless /\ DecoderOff

EndlessSpec ==
    /\ EndlessInit /\ [][Next]_vars
    /\ WF_vars(ScanStep) /\ WF_vars(PopOrSleep) /\ WF_vars(IntRise)
    /\ WF_vars(Call)

\* ------------------------------------------------------------------- C1
\* C1: in every reachable state the pending queue has room for the push a
\* scan makes: no push into the capacity-N queue ever overflows (panics),
\* also when entries of an earlier scan are still undelivered.
C1_NoPushOverflows == pc # "panicPush"

\* ------------------------------------------------------------------- C2
\* C2: every result fetched from a board is either still in the pending
\* queue (once) or has been returned exactly once; none is dropped.
C2_FetchedNeverDropped ==
    /\ ~redelivered
    /\ \A i \in Boards : \A k \in 1 .. fetches[i] :
          LET inQueue == Cardinality({j \in 1 .. Len(pending) :
                                         Key(pending[j]) = << i, k >>})
          IN  \/ inQueue = 1 /\ << i, k >> \notin returned
              \/ inQueue = 0 /\ << i, k >> \in returned

C4_AscendingAfterScan ==
    IsPrefix(lastScan.got, Ascending(Range(lastScan.S)))

C4_Witness ==
    /\ N = 3
    /\ lastScan.S = << 2, 0 >>
    /\ lastScan.got = << 0, 2 >>

\* ------------------------------------------------------------------- C5
AllReadyScan == Len(scanPushed) = N

CheckedOncePushedAll ==
    (pc = "pop" /\ AllReadyScan) =>
        /\ \A i \in 0 .. (N - 1) :
              Cardinality({k \in 1 .. Len(checks) : checks[k] = i}) = 1
        /\ IsSuffix(scanPushed, pending)
        /\ result.kind = "none"

C6_SleepOnlyWhenEmpty ==
    [][ /\ pc = "wait" => pending = <<>> /\ scanPushed = <<>>
        /\ pc' = "wait" => pending' = <<>> /\ scanPushed' = <<>>
        /\ (pc = "wait" /\ pc' = "idle") =>
              /\ pending' = <<>>
              /\ returned' = returned
              /\ fetches' = fetches
              /\ ready' = ready ]_vars

C6_Witness ==
    /\ pc = "idle"
    /\ result.kind = "none"
    /\ Len(checks) = N
    /\ returned # {}

\* ------------------------------------------------------------------- C7
\* C7: a failed readiness check or fetch ends the call at once with the
\* error; the queue then holds what it held when the call began plus the
\* entries this scan had pushed, nothing else and nothing less.
C7_ErrorEndsCall ==
    failed =>
        /\ pc = "idle"
        /\ result.kind = "err"
        /\ pending = pendingAtCall \o scanPushed

C7_Witness ==
    /\ failed
    /\ scanPushed # <<>>
    /\ pendingAtCall # <<>>

\* ------------------------------------------------------------------- C8
\* C8: the time stamp of every queued or returned tuple was taken not
\* earlier than the moment its board's is_ready() returned true and not
\* later than the moment its buffer was fetched, however long it is queued.
C8_StampAfterReady ==
    \A e \in Range(pending) \cup
             (IF result.kind = "ok" THEN {result.entry} ELSE {}) :
        e.stamp = "ok"

C8_Witness ==
    /\ result.kind = "ok"
    /\ result.entry \in Range(pendingAtCall)
    /\ result.entry.stamp = "ok"
    /\ pending # <<>>

\* ------------------------------------------------------------------- C9
\* C9: a flock of a single board (N = 1) is served: get_data does not hit
\* a fatal assertion.
C9_SingleSensorServed == pc # "panicAssert"


\* ------------------------------------------------------------------ C10
\* The synchronous part of get_data runs to its next suspension point once
\* polled, and the INT-low pulse of a board ends by itself; the caller, the
\* boards and a cancellation are under no obligation.
FairSpec ==
    /\ Spec
    /\ WF_vars(ScanStep)
    /\ WF_vars(PopOrSleep)
    /\ WF_vars(IntRise)

InCall == pc \in {"scan", "pop", "wait"}
SomeReady == \E i \in Boards : InFlock(i) /\ ready[i]

\* the boards can still complete a further measurement
CanMeasure == measured < MaxMeasure

C11_PendingGivenFirst == checks # <<>> => pendingAtCall = <<>>

\* C12: a successful stop stops each of the N boards exactly once and
\* hands all N handles and the INT line back to the caller; afterwards
\* there is no flock: nothing is called on a board, no handle or line
\* changes hands again, no get_data and no second stop takes place.
C12_StopHandsAllBack ==
    [][ /\ (pc = "idle" /\ pc' = "stopped") =>
              /\ pinINT' = "caller"
              /\ \A i \in Boards : InFlock(i) =>
                    handles'[i] = [own |-> "caller", st |-> "stopped",
                                   stops |-> 1]
        /\ pc = "stopped" =>
              /\ pc' = "stopped"
              /\ owned' = owned
              /\ << pending, checks, result, fetches >>'
                    = << pending, checks, result, fetches >> ]_vars

\* a flock of several boards that has ranged is stopped
C12_Witness ==
    /\ pc = "stopped"
    /\ N > 1
    /\ measured > 0
    /\ \A i \in Boards : InFlock(i) => handles[i].stops = 1

\* C13: when stopping one board fails during stop, then (besides the
\* error being returned) every handle is either stopped and back with
\* the caller or still ranging and owned by someone, and the INT line is
\* not lost.
C13_StopErrLosesNothing ==
    pc = "stopErr" =>
        /\ pinINT # "nobody"
        /\ \A i \in Boards : InFlock(i) =>
              \/ handles[i].st = "stopped" /\ handles[i].own = "caller"
              \/ handles[i].st = "ranging" /\ handles[i].own # "nobody"

\* C14: start is all-or-nothing: either it gives a flock that owns the
\* line and N ranging boards, with an empty queue, or it gives an error
\* and no flock, and every board it did not start is as it was: not
\* started and still the caller's.
C14_StartAllOrNothing ==
    [][ pc = "new" =>
          \/ /\ pc' = "idle"
             /\ pinINT' = "flock"
             /\ pending' = <<>>
             /\ \A i \in Boards : InFlock(i) =>
                   handles'[i].own = "flock" /\ handles'[i].st = "ranging"
          \/ /\ pc' = "startErr"
             /\ \A i \in Boards : handles'[i].st = "init" =>
                   handles'[i] = handles[i] ]_vars

\* -------------------------------------------------------- C15 .. C18
Fed == dpc \in {"done", "panic"}
Zone == 0 .. (DIM - 1)
Slots == 0 .. (DIM * DIM * TARGETS - 1)
RawAt(field, t, r, c) == field[(r * DIM + c) * TARGETS + t]
NegativeRead == \E k \in Slots : raw_results.distance_mm[k] < 0
BadStatusRead == \E k \in Slots : raw_results.target_status[k] \in 14 .. 254

\* C15: every raw distance v >= 0 that the decoder reads is decoded to the
\* same value, as a u16; a raw distance v < 0 makes the decode fail
\* fatally with no ResultsData: it is never turned into a large unsigned
\* value.
C15_DistanceKeptOrFatal ==
    Fed =>
      /\ NegativeRead => dpc = "panic" /\ data = NoData
      /\ dpc = "done" =>
            \A t \in 0 .. (TARGETS - 1), r \in Zone, c \in Zone :
               /\ data.distance_mm[t][r][c]
                     = RawAt(raw_results.distance_mm, t, r, c)
               /\ data.distance_mm[t][r][c] \in 0 .. 32767

\* a negative distance in a slot that is read: fatal
C15_Witness ==
    /\ dpc = "panic"
    /\ raw_results.distance_mm[12] = -1
    /\ raw_results.target_status[12] = 5
    /\ data = NoData

\* C16: the status classifier splits 0..=255 exactly: 5 is Valid, 6 and 9
\* are HalfValid, 255 is Invalid, the rest of 0..=13 is Other with the raw
\* value, and 14..=254 is fatal; no byte is in two classes or in none.
C16_StatusPartition ==
    Fed =>
      /\ BadStatusRead => dpc = "panic"
      /\ dpc = "panic" => BadStatusRead \/ NegativeRead
      /\ dpc = "done" =>
            \A t \in 0 .. (TARGETS - 1), r \in Zone, c \in Zone :
               LET b == RawAt(raw_results.target_status, t, r, c)
                   s == data.target_status[t][r][c]
               IN  \/ b = 5 /\ s = [tag |-> "Valid", raw |-> 5]
                   \/ b \in {6, 9} /\ s = [tag |-> "HalfValid", raw |-> b]
                   \/ b = 255 /\ s = [tag |-> "Invalid"]
                   \/ /\ b \in (0 .. 13) \ {5, 6, 9}
                      /\ s = [tag |-> "Other", raw |-> b]

\* a 4x4, one-target buffer with status 9 for zone (3,0) was decoded
C16_Witness ==
    /\ dpc = "done"
    /\ DIM = 4 /\ TARGETS = 1
    /\ raw_results.target_status[12] = 9
    /\ data.target_status[0][3][0] = [tag |-> "HalfValid", raw |-> 9]

\* C17: decoding keeps zone and target indices: field[t][r][c] of every
\* per-target field is the raw element (r*DIM + c)*TARGETS + t, and [r][c]
\* of every zone-metadata field is the raw element r*DIM + c; with DIM = 4
\* and TARGETS = 2, raw distances 1234 and 0 of zone (1,2) come out as
\* distance_mm[0][1][2] and distance_mm[1][1][2].
C17_IndicesKept ==
    dpc = "done" =>
      /\ \A t \in 0 .. (TARGETS - 1), r \in Zone, c \in Zone :
            /\ data.distance_mm[t][r][c]
                  = RawAt(raw_results.distance_mm, t, r, c)
            /\ data.range_sigma_mm[t][r][c]
                  = RawAt(raw_results.range_sigma_mm, t, r, c)
            /\ data.reflectance[t][r][c]
                  = RawAt(raw_results.reflectance, t, r, c)
            /\ data.signal_per_spad[t][r][c]
                  = RawAt(raw_results.signal_per_spad, t, r, c)
            /\ data.target_status[t][r][c]
                  = from_uld(RawAt(raw_results.target_status, t, r, c)).v
      /\ \A r \in Zone, c \in Zone :
            /\ data.ambient_per_spad[r][c]
                  = raw_results.ambient_per_spad[r * DIM + c]
            /\ data.spads_enabled[r][c]
                  = raw_results.nb_spads_enabled[r * DIM + c]
            /\ data.targets_detected[r][c]
                  = raw_results.nb_target_detected[r * DIM + c]
      /\ DOMAIN data.distance_mm = 0 .. (TARGETS - 1)
      /\ DOMAIN data.distance_mm[0] = Zone
      /\ DOMAIN data.ambient_per_spad = Zone
      /\ (/\ DIM = 4 /\ TARGETS = 2
          /\ raw_results.distance_mm[12] = 1234
          /\ raw_results.distance_mm[13] = 0)
            => /\ data.distance_mm[0][1][2] = 1234
               /\ data.distance_mm[1][1][2] = 0

\* the example: 1234 and 0 for zone (1,2) of a 4x4, two-target buffer
C17_Witness ==
    /\ dpc = "done"
    /\ DIM = 4 /\ TARGETS = 2
    /\ raw_results.distance_mm[12] = 1234
    /\ raw_results.distance_mm[13] = 0
    /\ data.distance_mm[0][1][2] = 1234
    /\ data.distance_mm[1][1][2] = 0

\* C18: the decoder reads only the prefix of each raw buffer: indices
\* below DIM*DIM of zone metadata and below DIM*DIM*TARGETS of per-target
\* fields, for DIM 4 and 8, TARGETS 1..4 and the offsets 0..TARGETS-1; an
\* index at or beyond the prefix is a panic, not a read.
C18_OnlyPrefixRead ==
    /\ DIM \in Dims /\ TARGETS \in TargetCounts
    /\ reads.meta \subseteq 0 .. (DIM * DIM - 1)
    /\ reads.target \subseteq Slots
    /\ dpc = "done" => reads.target = Slots
    /\ dpc = "helperDone" => offset \in 0 .. (TARGETS - 1)
    /\ dpc = "helperPanic" => offset >= TARGETS /\ out = <<>>

\* the helper was given offset = TARGETS on a 4x4 layout, where the raw
\* buffer goes on after the prefix
C18_Witness ==
    /\ dpc = "helperPanic"
    /\ DIM = 4
    /\ offset = TARGETS
    /\ reads.target # {}

\* ------------------------------------------------------------------ C19
\* C19: for any one board, get_data returns the board's results in the
\* order in which they were fetched (time stamps never go back), however
\* calls interleave with boards becoming ready again while earlier
\* results are pending: no result is returned after a later one of its
\* board.
C19_PerSensorOrder ==
    (pc = "idle" /\ result.kind = "ok") =>
        \A p \in returned :
            p[1] = result.entry.idx => p[2] <= result.entry.seq

\* ------------------------------------------------------------------ C20
\* C20: no pending entry starves: as long as the caller keeps calling
\* get_data and no call fails, a result that is in the pending queue is
\* returned by some later call, whatever the other boards do in between
\* (a lower-index board may be ready again at every call).
IsPending(i, k) == \E e \in Range(pending) : Key(e) = << i, k >>
FlockGone == Panicked \/ pc \in {"stopped", "stopErr"}
C20_NoEntryStarves ==
    \A i \in Boards :
        (IsPending(i, 1) /\ errs = 0)
            ~> (~IsPending(i, 1) \/ errs > 0 \/ FlockGone)
====
